---- MODULE Spec2Model ----
(***************************************************************************)
(* Model of the ECDL client orchestrator (src/client/client/main.cpp):     *)
(* the poll loop (pollConnections), the submission pump (sendPointsThread),*)
(* the result callback (pointFoundCallback / addPointToCache) and the      *)
(* threads that hold the engine's blocking run() (runningThread).          *)
(*                                                                         *)
(* Every execution unit is a program counter over the statements of its    *)
(* function; one action is one statement or one external call.  Variables  *)
(* of the second group below are history variables: they record what has   *)
(* happened and are never read by a guard or an assignment of the program. *)
(***************************************************************************)
EXTENDS Integers, Sequences, FiniteSets, TLC

(* ---------------------------- bounds ---------------------------------- *)

\* engine workers that may be inside pointFoundCallback at the same time
NumWorkers == 2
\* candidates the engine reports over a whole behaviour
MaxFound == 2
\* largest configured _config.pointCacheSize that is explored
MaxThreshold == 2
\* run threads (created or inside run()) that exist at the same time
MaxThreads == 2

Workers == 1..NumWorkers

\* values of _pointsMutex: nobody, a worker, or the pump
NoHolder == 0
PumpHolder == NumWorkers + 1

(* ------------------------ program constants --------------------------- *)

\* The status codes are compared by name only; their numbers are not used.
SERVER_STATUS_RUNNING == "RUNNING"
SERVER_STATUS_STOPPED == "STOPPED"
\* any status value that is neither of the two recognised ones
SERVER_STATUS_OTHER == "OTHER"

StatusValues == {SERVER_STATUS_OTHER, SERVER_STATUS_RUNNING, SERVER_STATUS_STOPPED}

NUM_R_POINTS == 32

\* The parameters the server hands out: the curve y^2 = x^3 + x + 1 over GF(5).
ServerParams == [p |-> 5, a |-> 1, b |-> 1, numR |-> NUM_R_POINTS]
\* _params, _rx, _ry before getParameters has filled them in
NoParams == [p |-> 0, a |-> 0, b |-> 0, numR |-> 0]

\* Coordinates the engine may report: (0,1) is on the curve, (1,1) is not.
CandX == {0, 1}
CandY == {1}

NoCand == [id |-> 0, x |-> 0, y |-> 0]

VARIABLES
    \* ---- program state
    pointCacheSize, \* _config.pointCacheSize, fixed by loadConfig
    _running,       \* bool _running
    _context,       \* ECDLContext *_context: "NULL" or "ctx" (the pointer value)
    ctxState,       \* the engine object: "none", "constructed", "inited", "deleted"
    engRunning,     \* what _context->isRunning() answers
    stopRequested,  \* _context->stop() has been called
    _params,        \* _params, _rx, _ry
    _pointsCache,   \* std::vector<DistinguishedPoint> _pointsCache
    _pointsMutex,   \* holder of _pointsMutex: NoHolder, a worker or PumpHolder
    pollPc,         \* position of pollConnections
    status,         \* local `status` of pollConnections
    pumpPc,         \* position of sendPointsThread
    points,         \* local `points` of sendPointsThread
    success,        \* local `success` of sendPointsThread
    wpc,            \* position of each worker inside pointFoundCallback
    cand,           \* CallbackParameters each worker was called with
    launched,       \* run threads created that have not yet entered run()
    inRun,          \* run threads inside _context->run()
    proc,           \* the process: "running", "exited" (main returned), "crashed"
                    \* (uncaught exception) or "fault" (undefined behaviour)
    \* ---- history
    found,          \* candidates reported so far (numbers the walks)
    appended,       \* every point pushed to the cache, in push order
    submitted,      \* every batch submitPoints accepted, in order
    cacheAtGrab,    \* the cache when the pump last took the lock
    cycleSubmits,   \* submitPoints calls in the current pump cycle
    lenAtCall,      \* cache size when each worker's callback began
    lenAtGrab,      \* cache size when each worker took the lock
    iter,           \* what the current poll iteration has done so far
    totalCtor,      \* engines constructed so far
    failed,         \* the batch of the last submitPoints call if that call failed
    paramWrites,    \* times getParameters has written _params, _rx, _ry
    fetchFailed     \* the last getParameters call failed

vars == << pointCacheSize, _running, _context, ctxState, engRunning, stopRequested, _params,
           _pointsCache, _pointsMutex, pollPc, status, pumpPc, points, success,
           wpc, cand, launched, inRun, proc, found, appended, submitted,
           cacheAtGrab, cycleSubmits, lenAtCall, lenAtGrab, iter, totalCtor,
           failed, paramWrites, fetchFailed >>

\* what only the poll loop writes, what only the pump writes, what only the
\* callback writes, and what only the run threads write
engineVars == << _context, ctxState, stopRequested, _params, totalCtor >>
pollVars == << pollPc, status, iter >>
pumpVars == << pumpPc, points, success, submitted, cacheAtGrab, cycleSubmits >>
workerVars == << wpc, cand, found, appended, lenAtCall, lenAtGrab >>
histVars == << failed, paramWrites, fetchFailed >>

(* ------------------------- pure helpers -------------------------------- *)

\* ECCurve::pointExists: y^2 = x^3 + a*x + b (mod p)
pointExists(prm, x, y) ==
    /\ prm.p > 0
    /\ (y * y) % prm.p = (x * x * x + prm.a * x + prm.b) % prm.p

verifyPoint(x, y) == pointExists(_params, x, y)

\* DistinguishedPoint p(a, b, x, y, length); id stands for (aStart, bStart, length)
DistinguishedPoint(c) == [id |-> c.id, x |-> c.x, y |-> c.y]

\* mutant: the point is inserted at the front
PushBack_Front(v, p) == << p >> \o v

\* std::vector::push_back
PushBack(v, p) == Append(v, p)

\* mutant: the copy loop stops one element early
CopyPoints_SkipLast(src, i, dst) ==
    IF Len(src) > i THEN dst \o SubSeq(src, i + 1, Len(src) - 1) ELSE dst

\* for(i = 0; i < _pointsCache.size(); i++) points.push_back(_pointsCache[i]);
RECURSIVE CopyPoints(_, _, _)
CopyPoints(src, i, dst) ==
    IF i < Len(src) THEN CopyPoints(src, i + 1, PushBack(dst, src[i + 1])) ELSE dst

\* mutant: the pump submits whenever the cache is not empty
ThresholdReached_NonEmpty(cache, threshold) == Len(cache) > 0

\* mutant: the comparison is strict
ThresholdReached_Strict(cache, threshold) == Len(cache) > threshold

\* if(_pointsCache.size() >= _config.pointCacheSize)
ThresholdReached(cache, threshold) == Len(cache) >= threshold

\* mutant: the cache is never cleared
CacheAfterSubmit_NeverClear(ok, cache) == cache

\* mutant: the cache is cleared whether or not the submission succeeded
CacheAfterSubmit_AlwaysClear(ok, cache) == << >>

\* if(success) { _pointsCache.clear(); }
CacheAfterSubmit(ok, cache) == IF ok THEN << >> ELSE cache

\* mutant: addPointToCache does not wait for the mutex
AppendMayEnter_NoWait(m) == TRUE

\* _pointsMutex.grab() in addPointToCache returns once nobody holds the mutex
AppendMayEnter(m) == m = NoHolder

\* mutant: the result of verifyPoint is ignored
CallbackNext_NoCheck(valid) == "grab"

\* if(!valid) { ...; return; }  addPointToCache(...)
CallbackNext(valid) == IF valid THEN "grab" ELSE "idle"

\* mutant: RUNNING always fetches parameters and builds an engine
Dispatch_IgnoreContext(st, ctx) ==
    IF st = SERVER_STATUS_RUNNING
    THEN "getParams"
    ELSE IF st = SERVER_STATUS_STOPPED THEN "stopping" ELSE "sleep"

\* mutant: every status other than STOPPED is treated as RUNNING
Dispatch_OtherRuns(st, ctx) ==
    IF st = SERVER_STATUS_STOPPED
    THEN "stopping"
    ELSE IF ctx = "NULL" THEN "getParams" ELSE "checkRunning"

\* the branches of pollConnections on the status it received
Dispatch(st, ctx) ==
    IF st = SERVER_STATUS_RUNNING
    THEN IF ctx = "NULL" THEN "getParams" ELSE "checkRunning"
    ELSE IF st = SERVER_STATUS_STOPPED THEN "stopping" ELSE "sleep"

\* getParameters: the call throws before any assignment, or every field is copied
ParamsAfterFetch(ok, old) == IF ok THEN ServerParams ELSE old

\* mutant: the result of getParameters is ignored
AfterGetParameters_Ignore(ok) == "newContext"

\* if(!getParameters(_params, _rx, _ry)) { log } else { construct, init, launch }
AfterGetParameters(ok) == IF ok THEN "newContext" ELSE "sleep"

\* mutant: the flag is cleared instead of set
RunningAtEntry_False == FALSE

\* _running = true; at the head of pollConnections
RunningAtEntry == TRUE

\* mutant: the `break` is missing and the loop goes on to sleep(300)
AfterStopped_NoBreak == "sleep"

\* the `break` that follows the STOPPED branch
AfterStopped == "done"

\* mutant: an engine that is not running is left alone
NeedsLaunch_Never(isRunning) == FALSE

\* else if(!_context->isRunning())
NeedsLaunch(isRunning) == ~isRunning

\* History of one poll iteration: the status it received, whether _context was
\* non-NULL then, whether getParameters succeeded, whether isRunning() was asked
\* and what it answered, and how many of each call the iteration has made.
FreshIter == [active |-> FALSE, status |-> SERVER_STATUS_OTHER, hadCtx |-> FALSE,
              fetchOk |-> FALSE, checked |-> FALSE, sawRunning |-> FALSE,
              getParams |-> 0, ctor |-> 0, init |-> 0, launch |-> 0, stop |-> 0]

\* no failed submitPoints call is outstanding; otherwise `failed` holds the
\* batch that call was given and how many points had been appended by then
NoFailure == [set |-> FALSE, batch |-> << >>, at |-> 0]

Range(s) == {s[i] : i \in 1..Len(s)}
Ids(s) == {s[i].id : i \in 1..Len(s)}
Last(s) == s[Len(s)]

(* ---------------------------- Init ------------------------------------ *)

Init ==
    /\ _running = TRUE
    /\ _context = "NULL"
    /\ ctxState = "none"
    /\ engRunning = FALSE
    /\ stopRequested = FALSE
    /\ _params = NoParams
    /\ _pointsCache = << >>
    /\ _pointsMutex = NoHolder
    /\ pollPc = "enter"
    /\ status = SERVER_STATUS_OTHER
    /\ pumpPc = "unstarted"
    /\ points = << >>
    /\ success = TRUE
    /\ wpc = [w \in Workers |-> "idle"]
    /\ cand = [w \in Workers |-> NoCand]
    /\ launched = 0
    /\ inRun = 0
    /\ proc = "running"
    /\ found = 0
    /\ appended = << >>
    /\ submitted = << >>
    /\ cacheAtGrab = << >>
    /\ cycleSubmits = 0
    /\ lenAtCall = [w \in Workers |-> 0]
    /\ lenAtGrab = [w \in Workers |-> 0]
    /\ iter = FreshIter
    /\ totalCtor = 0
    /\ failed = NoFailure
    /\ paramWrites = 0
    /\ fetchFailed = FALSE
    /\ pointCacheSize \in 1..MaxThreshold

(* -------------------- pollConnections (lines 222-281) ------------------ *)

Alive == proc = "running"

\* _running = true; Thread pointsThread(sendPointsThread, NULL);
PollEnter ==
    /\ Alive /\ pollPc = "enter"
    /\ _running' = RunningAtEntry
    /\ pumpPc' = "loop"
    /\ pollPc' = IF _running' THEN "poll" ELSE "done"
    /\ UNCHANGED << histVars, pointCacheSize, engineVars, engRunning, status, iter, launched,
                    inRun, proc, _pointsCache, _pointsMutex, points, success,
                    submitted, cacheAtGrab, cycleSubmits, workerVars >>

\* while(_running) { status = getStatus(_id); ... } with getStatus returning st
PollGetStatus(st) ==
    /\ Alive /\ pollPc = "poll"
    /\ status' = st
    /\ iter' = [FreshIter EXCEPT !.active = TRUE, !.status = st,
                                 !.hadCtx = (_context # "NULL")]
    /\ pollPc' = Dispatch(st, _context)
    /\ UNCHANGED << histVars, pointCacheSize, _running, engineVars, engRunning, launched, inRun,
                    proc, _pointsCache, _pointsMutex, pumpVars, workerVars >>

\* getStatus throws: log, sleep(60), continue
PollGetStatusFail ==
    /\ Alive /\ pollPc = "poll"
    /\ pollPc' = "backoff"
    /\ UNCHANGED << histVars, pointCacheSize, _running, engineVars, engRunning, status, iter,
                    launched, inRun, proc, _pointsCache, _pointsMutex, pumpVars,
                    workerVars >>

\* the end of sleep(60) or of sleep(300): back to the loop head
PollWake ==
    /\ Alive /\ pollPc \in {"backoff", "sleep"}
    /\ pollPc' = IF _running THEN "poll" ELSE "done"
    /\ iter' = FreshIter
    /\ status' = SERVER_STATUS_OTHER
    /\ UNCHANGED << histVars, pointCacheSize, _running, engineVars, engRunning,
                    launched, inRun, proc, _pointsCache, _pointsMutex, pumpVars,
                    workerVars >>

\* getParameters(_params, _rx, _ry): the server answers (ok) or the call throws
PollGetParameters(ok) ==
    /\ Alive /\ pollPc = "getParams"
    /\ _params' = ParamsAfterFetch(ok, _params)
    /\ paramWrites' = IF _params' # _params \/ ok THEN paramWrites + 1 ELSE paramWrites
    /\ fetchFailed' = ~ok
    /\ iter' = [iter EXCEPT !.getParams = @ + 1, !.fetchOk = ok]
    /\ pollPc' = AfterGetParameters(ok)
    /\ UNCHANGED << failed, pointCacheSize, _running, _context, ctxState, stopRequested,
                    totalCtor, engRunning, status, launched, inRun, proc,
                    _pointsCache, _pointsMutex, pumpVars, workerVars >>

\* _context = getNewContext(&_params, _rx, _ry, NUM_R_POINTS, pointFoundCallback);
PollNewContext ==
    /\ Alive /\ pollPc = "newContext"
    /\ _context' = "ctx"
    /\ ctxState' = "constructed"
    /\ totalCtor' = totalCtor + 1
    /\ iter' = [iter EXCEPT !.ctor = @ + 1]
    /\ pollPc' = "init"
    /\ UNCHANGED << histVars, pointCacheSize, _running, stopRequested, _params, engRunning,
                    status, launched, inRun, proc, _pointsCache, _pointsMutex,
                    pumpVars, workerVars >>

\* _context->init(); returns normally
PollInit ==
    /\ Alive /\ pollPc = "init"
    /\ ctxState' = "inited"
    /\ iter' = [iter EXCEPT !.init = @ + 1]
    /\ pollPc' = "launch"
    /\ UNCHANGED << histVars, pointCacheSize, _running, _context, stopRequested, _params,
                    totalCtor, engRunning, status, launched, inRun, proc,
                    _pointsCache, _pointsMutex, pumpVars, workerVars >>

\* _context->init(); raises: nothing in pollConnections, enterEventLoop or main
\* catches it, so the process is terminated
PollInitThrows ==
    /\ Alive /\ pollPc = "init"
    /\ iter' = [iter EXCEPT !.init = @ + 1]
    /\ proc' = "crashed"
    /\ UNCHANGED << histVars, pointCacheSize, _running, engineVars, engRunning, status, pollPc,
                    launched, inRun, _pointsCache, _pointsMutex, pumpVars,
                    workerVars >>

\* Thread t(runningThread, NULL); after init  (MaxThreads caps the threads
\* that exist at once)
PollLaunch ==
    /\ Alive /\ pollPc = "launch"
    /\ launched + inRun < MaxThreads
    /\ launched' = launched + 1
    /\ iter' = [iter EXCEPT !.launch = @ + 1]
    /\ pollPc' = "sleep"
    /\ UNCHANGED << histVars, pointCacheSize, _running, engineVars, engRunning, status, inRun,
                    proc, _pointsCache, _pointsMutex, pumpVars, workerVars >>

\* else if(!_context->isRunning()) { Thread t(runningThread, NULL); }
PollCheckRunning ==
    /\ Alive /\ pollPc = "checkRunning"
    /\ IF NeedsLaunch(engRunning)
       THEN /\ launched + inRun < MaxThreads
            /\ launched' = launched + 1
            /\ iter' = [iter EXCEPT !.checked = TRUE, !.sawRunning = engRunning,
                                    !.launch = @ + 1]
       ELSE /\ launched' = launched
            /\ iter' = [iter EXCEPT !.checked = TRUE, !.sawRunning = engRunning]
    /\ pollPc' = "sleep"
    /\ UNCHANGED << histVars, pointCacheSize, _running, engineVars, engRunning, status, inRun,
                    proc, _pointsCache, _pointsMutex, pumpVars, workerVars >>

\* if(_context != NULL) { _context->stop(); delete _context; } break;
PollStopped ==
    /\ Alive /\ pollPc = "stopping"
    /\ IF _context # "NULL"
       THEN /\ stopRequested' = TRUE
            /\ ctxState' = "deleted"
            /\ iter' = [iter EXCEPT !.stop = @ + 1]
       ELSE UNCHANGED << stopRequested, ctxState, iter >>
    /\ pollPc' = AfterStopped
    /\ UNCHANGED << histVars, pointCacheSize, _running, _context, _params, totalCtor,
                    engRunning, status, launched, inRun, proc, _pointsCache,
                    _pointsMutex, pumpVars, workerVars >>

\* pollConnections returns, enterEventLoop returns, main returns 0
MainReturn ==
    /\ Alive /\ pollPc = "done"
    /\ proc' = "exited"
    /\ UNCHANGED << histVars, pointCacheSize, _running, engineVars, engRunning, pollVars,
                    launched, inRun, _pointsCache, _pointsMutex, pumpVars,
                    workerVars >>

(* -------------------- sendPointsThread (lines 171-206) ----------------- *)

\* while(_running)
PumpLoop ==
    /\ Alive /\ pumpPc = "loop"
    /\ pumpPc' = IF _running THEN "grab" ELSE "returned"
    /\ UNCHANGED << histVars, pointCacheSize, _running, engineVars, engRunning, pollVars,
                    launched, inRun, proc, _pointsCache, _pointsMutex, points,
                    success, submitted, cacheAtGrab, cycleSubmits, workerVars >>

\* _pointsMutex.grab();
PumpGrab ==
    /\ Alive /\ pumpPc = "grab"
    /\ _pointsMutex = NoHolder
    /\ _pointsMutex' = PumpHolder
    /\ cacheAtGrab' = _pointsCache
    /\ cycleSubmits' = 0
    /\ pumpPc' = "check"
    /\ UNCHANGED << histVars, pointCacheSize, _running, engineVars, engRunning, pollVars,
                    launched, inRun, proc, _pointsCache, points, success,
                    submitted, workerVars >>

\* if(size >= pointCacheSize) { success = true; copy the cache into points; ...
PumpCheck ==
    /\ Alive /\ pumpPc = "check"
    /\ IF ThresholdReached(_pointsCache, pointCacheSize)
       THEN /\ success' = TRUE
            /\ points' = CopyPoints(_pointsCache, 0, << >>)
            /\ pumpPc' = "submit"
       ELSE /\ pumpPc' = "release"
            /\ UNCHANGED << success, points >>
    /\ UNCHANGED << histVars, pointCacheSize, _running, engineVars, engRunning, pollVars,
                    launched, inRun, proc, _pointsCache, _pointsMutex, submitted,
                    cacheAtGrab, cycleSubmits, workerVars >>

\* try { submitPoints(_id, points); } catch(std::string err) { success = false; }
PumpSubmit(ok) ==
    /\ Alive /\ pumpPc = "submit"
    /\ success' = ok
    /\ submitted' = IF ok THEN Append(submitted, points) ELSE submitted
    /\ cycleSubmits' = cycleSubmits + 1
    /\ failed' = IF ok THEN NoFailure
                  ELSE [set |-> TRUE, batch |-> points, at |-> Len(appended)]
    /\ pumpPc' = "after"
    /\ UNCHANGED << paramWrites, fetchFailed, pointCacheSize, _running, engineVars, engRunning, pollVars,
                    launched, inRun, proc, _pointsCache, _pointsMutex, points,
                    cacheAtGrab, workerVars >>

\* if(success) { _pointsCache.clear(); }
PumpAfter ==
    /\ Alive /\ pumpPc = "after"
    /\ _pointsCache' = CacheAfterSubmit(success, _pointsCache)
    /\ pumpPc' = "release"
    /\ UNCHANGED << histVars, pointCacheSize, _running, engineVars, engRunning, pollVars,
                    launched, inRun, proc, _pointsMutex, points, success,
                    submitted, cacheAtGrab, cycleSubmits, workerVars >>

\* _pointsMutex.release(); sleep(30);  (the locals of the cycle go out of scope)
PumpRelease ==
    /\ Alive /\ pumpPc = "release"
    /\ _pointsMutex' = NoHolder
    /\ points' = << >>
    /\ success' = TRUE
    /\ cacheAtGrab' = << >>
    /\ cycleSubmits' = 0
    /\ pumpPc' = "loop"
    /\ UNCHANGED << histVars, pointCacheSize, _running, engineVars, engRunning, pollVars,
                    launched, inRun, proc, _pointsCache, submitted, workerVars >>

(* ----------- pointFoundCallback, addPointToCache (lines 110-133) ------- *)

\* the engine, inside run(), calls pointFoundCallback(p); the call in progress
\* is named by the lowest worker number that is free (the workers are alike)
CallbackEnter(w, x, y) ==
    /\ Alive /\ wpc[w] = "idle"
    /\ \A v \in Workers : v < w => wpc[v] # "idle"
    /\ inRun > 0
    /\ found < MaxFound
    /\ found' = found + 1
    /\ cand' = [cand EXCEPT ![w] = [id |-> found + 1, x |-> x, y |-> y]]
    /\ lenAtCall' = [lenAtCall EXCEPT ![w] = Len(_pointsCache)]
    /\ wpc' = [wpc EXCEPT ![w] = "verify"]
    /\ UNCHANGED << histVars, pointCacheSize, _running, engineVars, engRunning, pollVars,
                    launched, inRun, proc, _pointsCache, _pointsMutex, pumpVars,
                    appended, lenAtGrab >>

\* bool valid = verifyPoint(p->x, p->y); if(!valid) { log; return; }
CallbackVerify(w) ==
    /\ Alive /\ wpc[w] = "verify"
    /\ LET next == CallbackNext(verifyPoint(cand[w].x, cand[w].y)) IN
       /\ wpc' = [wpc EXCEPT ![w] = next]
       /\ cand' = IF next = "idle" THEN [cand EXCEPT ![w] = NoCand] ELSE cand
       /\ lenAtCall' = IF next = "idle" THEN [lenAtCall EXCEPT ![w] = 0]
                                        ELSE lenAtCall
    /\ UNCHANGED << histVars, pointCacheSize, _running, engineVars, engRunning, pollVars,
                    launched, inRun, proc, _pointsCache, _pointsMutex, pumpVars,
                    found, appended, lenAtGrab >>

\* _pointsMutex.grab();
CallbackGrab(w) ==
    /\ Alive /\ wpc[w] = "grab"
    /\ AppendMayEnter(_pointsMutex)
    /\ _pointsMutex' = w
    /\ lenAtGrab' = [lenAtGrab EXCEPT ![w] = Len(_pointsCache)]
    /\ wpc' = [wpc EXCEPT ![w] = "push"]
    /\ UNCHANGED << histVars, pointCacheSize, _running, engineVars, engRunning, pollVars,
                    launched, inRun, proc, _pointsCache, pumpVars, cand, found,
                    appended, lenAtCall >>

\* _pointsCache.push_back(p);
CallbackPush(w) ==
    /\ Alive /\ wpc[w] = "push"
    /\ _pointsCache' = PushBack(_pointsCache, DistinguishedPoint(cand[w]))
    /\ appended' = Append(appended, DistinguishedPoint(cand[w]))
    /\ wpc' = [wpc EXCEPT ![w] = "release"]
    /\ UNCHANGED << histVars, pointCacheSize, _running, engineVars, engRunning, pollVars,
                    launched, inRun, proc, _pointsMutex, pumpVars, cand, found,
                    lenAtCall, lenAtGrab >>

\* _pointsMutex.release(); and the callback returns
CallbackRelease(w) ==
    /\ Alive /\ wpc[w] = "release"
    /\ _pointsMutex' = NoHolder
    /\ wpc' = [wpc EXCEPT ![w] = "idle"]
    /\ cand' = [cand EXCEPT ![w] = NoCand]
    /\ lenAtCall' = [lenAtCall EXCEPT ![w] = 0]
    /\ lenAtGrab' = [lenAtGrab EXCEPT ![w] = 0]
    /\ UNCHANGED << histVars, pointCacheSize, _running, engineVars, engRunning, pollVars,
                    launched, inRun, proc, _pointsCache, pumpVars, found,
                    appended >>

(* ------------------- runningThread (lines 211-217) --------------------- *)

\* a created thread reaches _context->run(); the engine reports itself running
RunBegin ==
    /\ Alive /\ launched > 0
    /\ launched' = launched - 1
    /\ inRun' = inRun + 1
    /\ engRunning' = TRUE
    /\ UNCHANGED << histVars, pointCacheSize, _running, engineVars, pollVars, proc,
                    _pointsCache, _pointsMutex, pumpVars, workerVars >>

\* run() returns, after stop() or abnormally, and the thread ends
RunReturn ==
    /\ Alive /\ inRun > 0
    /\ \A w \in Workers : wpc[w] = "idle"
    /\ inRun' = inRun - 1
    /\ engRunning' = FALSE
    /\ UNCHANGED << histVars, pointCacheSize, _running, engineVars, pollVars, launched, proc,
                    _pointsCache, _pointsMutex, pumpVars, workerVars >>

\* After `delete _context` a thread that calls or is inside _context->run()
\* uses a freed object: undefined behaviour, one outcome of which is that the
\* process dies; the other outcome is that the thread carries on (the steps
\* above).
UseAfterDelete ==
    /\ Alive /\ ctxState = "deleted"
    /\ launched + inRun > 0
    /\ proc' = "fault"
    /\ UNCHANGED << histVars, pointCacheSize, _running, engineVars, engRunning, pollVars,
                    launched, inRun, _pointsCache, _pointsMutex, pumpVars,
                    workerVars >>

(* ------------------------------ Next ----------------------------------- *)

Next ==
    \/ PollEnter
    \/ \E st \in StatusValues : PollGetStatus(st)
    \/ PollGetStatusFail
    \/ PollWake
    \/ \E ok \in BOOLEAN : PollGetParameters(ok)
    \/ PollNewContext
    \/ PollInit
    \/ PollInitThrows
    \/ PollLaunch
    \/ PollCheckRunning
    \/ PollStopped
    \/ MainReturn
    \/ PumpLoop
    \/ PumpGrab
    \/ PumpCheck
    \/ \E ok \in BOOLEAN : PumpSubmit(ok)
    \/ PumpAfter
    \/ PumpRelease
    \/ \E w \in Workers, x \in CandX, y \in CandY : CallbackEnter(w, x, y)
    \/ \E w \in Workers : CallbackVerify(w)
    \/ \E w \in Workers : CallbackGrab(w)
    \/ \E w \in Workers : CallbackPush(w)
    \/ \E w \in Workers : CallbackRelease(w)
    \/ RunBegin
    \/ RunReturn
    \/ UseAfterDelete

Spec == Init /\ [][Next]_vars

\* The pump thread and the engine's workers are scheduled by the operating
\* system, so each of their enabled steps is eventually taken; the pump gets
\* the lock if it is free again and again; submitPoints does not fail forever.
\* Nothing is assumed of the poll loop, the server's answers or the engine.
FairSpec ==
    /\ Spec
    /\ WF_vars(PumpLoop)
    /\ SF_vars(PumpGrab)
    /\ WF_vars(PumpCheck)
    /\ SF_vars(PumpSubmit(TRUE))
    /\ WF_vars(PumpAfter)
    /\ WF_vars(PumpRelease)
    /\ \A w \in Workers : WF_vars(CallbackPush(w)) /\ WF_vars(CallbackRelease(w))

(* ------------------------------ claims --------------------------------- *)

\* ids of the points some accepted submitPoints call contained
Delivered == UNION {Ids(submitted[k]) : k \in 1..Len(submitted)}

PointIds == 1..MaxFound

\* C1 (original statement): every verified point appended to the cache is
\* eventually contained in a submitPoints call that succeeds, in every fair
\* execution in which the process keeps running, also when the cache stays
\* below the threshold.
C1_EveryPointDelivered ==
    \A i \in PointIds :
        (i \in Ids(appended)) ~> (i \in Delivered \/ ~Alive)

\* C1 (amended): every point that is in the cache while the cache size is at
\* least pointCacheSize is eventually contained in a submitPoints call that
\* succeeds, unless the process ends first.
C1_DeliveredOnceThresholdReached ==
    \A i \in PointIds :
        (i \in Ids(_pointsCache) /\ Len(_pointsCache) >= pointCacheSize)
            ~> (i \in Delivered \/ ~Alive)

\* every candidate was on the curve and every one has been delivered, in two
\* accepted batches
C1_Witness ==
    /\ Len(appended) = MaxFound
    /\ Ids(appended) = Delivered
    /\ Len(submitted) >= 2

\* C2: when submitPoints fails, the cache at the end of the pump cycle is the
\* cache the pump found when it took the lock, element for element.
C2_FailureKeepsCache ==
    /\ [](pumpPc \in {"after", "release"} /\ ~success => _pointsCache = cacheAtGrab)
    /\ [][pumpPc = "release" /\ pumpPc' = "loop" /\ ~success
            => _pointsCache' = cacheAtGrab]_vars

C2_Witness ==
    /\ pumpPc = "release" /\ ~success
    /\ Len(_pointsCache) >= 2

\* C3: on success the cache becomes empty and what is cleared is exactly the
\* snapshot that was submitted: between snapshot and clear the cache equals the
\* snapshot, and a cycle submits at most once.
C3_SuccessClearsSnapshot ==
    /\ [](pumpPc \in {"submit", "after"}
            => _pointsCache = points /\ points = cacheAtGrab /\ cycleSubmits <= 1)
    /\ [][pumpPc = "after" /\ pumpPc' = "release" /\ success
            => _pointsCache = points /\ _pointsCache' = << >>
               /\ Last(submitted) = points]_vars

C3_Witness ==
    /\ pumpPc = "release" /\ cycleSubmits = 1 /\ success
    /\ _pointsCache = << >>
    /\ Len(Last(submitted)) >= 2

\* C4: submitPoints is called only in a cycle whose cache size, read under the
\* lock, is at least pointCacheSize; a cycle below the threshold makes no call
\* and leaves the cache as it found it.
C4_SubmitOnlyAtThreshold ==
    /\ (pumpPc \in {"submit", "after"} \/ cycleSubmits > 0)
           => Len(cacheAtGrab) >= pointCacheSize
    /\ (pumpPc = "release" /\ Len(cacheAtGrab) < pointCacheSize)
           => cycleSubmits = 0 /\ _pointsCache = cacheAtGrab

C4_Witness ==
    /\ pumpPc = "release"
    /\ Len(cacheAtGrab) < pointCacheSize
    /\ Len(cacheAtGrab) > 0

C6_InvalidNeverCached ==
    /\ [](/\ \A w \in Workers :
               wpc[w] \in {"grab", "push", "release"} \/ _pointsMutex = w
                   => pointExists(_params, cand[w].x, cand[w].y)
          /\ \A i \in 1..Len(_pointsCache) :
               pointExists(_params, _pointsCache[i].x, _pointsCache[i].y))
    /\ [][\A w \in Workers :
            (/\ wpc[w] = "verify"
             /\ ~pointExists(_params, cand[w].x, cand[w].y)
             /\ wpc'[w] # "verify")
                => /\ wpc'[w] = "idle"
                   /\ _pointsCache' = _pointsCache
                   /\ _pointsMutex' = _pointsMutex
                   /\ appended' = appended]_vars

\* a candidate off the curve was reported and dropped beside a cached point
C6_Witness ==
    /\ found = 2 /\ Len(appended) = 1 /\ Len(_pointsCache) = 1
    /\ \A w \in Workers : wpc[w] = "idle"

StoppedIter == iter.active /\ iter.status = SERVER_STATUS_STOPPED

\* C7: a STOPPED status leads to one stop() when _context is set (none when it
\* is NULL), the release of the engine and the end of the poll loop, after
\* which the poll loop makes no further call.
C7_StoppedStopsOnce ==
    /\ [](StoppedIter => pollPc \in {"stopping", "done"})
    /\ [](StoppedIter /\ pollPc = "stopping" => iter.stop = 0)
    /\ [](pollPc = "done"
            => /\ StoppedIter
               /\ iter.stop = (IF iter.hadCtx THEN 1 ELSE 0)
               /\ iter.hadCtx => (ctxState = "deleted" /\ stopRequested)
               /\ iter.getParams = 0 /\ iter.ctor = 0 /\ iter.init = 0
               /\ iter.launch = 0)
    /\ [][pollPc = "done"
            => /\ pollPc' = "done" /\ iter' = iter /\ status' = status
               /\ launched' <= launched
               /\ UNCHANGED engineVars]_vars

C7_Witness ==
    /\ pollPc = "done" /\ iter.hadCtx /\ iter.stop = 1
    /\ proc = "exited"

NoEngineRunningIter ==
    iter.active /\ iter.status = SERVER_STATUS_RUNNING /\ ~iter.hadCtx

\* C8 (original statement): a RUNNING status received while _context is NULL
\* gives exactly one init and exactly one run launch in that poll iteration.
C8_OneInitOneLaunch ==
    NoEngineRunningIter /\ pollPc = "sleep" => iter.init = 1 /\ iter.launch = 1

\* C8 (amended): such an iteration calls getParameters exactly once; when the
\* fetch fails it constructs nothing, calls no init and launches nothing; when
\* the fetch succeeds it constructs one engine and calls init once, and it
\* launches run exactly once if init returns and not at all if init raises.
C8_OneInitOneLaunchIfFetched ==
    /\ iter.getParams <= 1 /\ iter.ctor <= 1 /\ iter.init <= 1 /\ iter.launch <= 1
    /\ NoEngineRunningIter /\ pollPc = "sleep"
          => /\ iter.getParams = 1
             /\ iter.ctor = (IF iter.fetchOk THEN 1 ELSE 0)
             /\ iter.init = iter.ctor
             /\ iter.launch = iter.init
             /\ iter.stop = 0
    /\ NoEngineRunningIter /\ proc = "crashed"
          => /\ iter.getParams = 1 /\ iter.fetchOk
             /\ iter.ctor = 1 /\ iter.init = 1 /\ iter.launch = 0

C8_Witness ==
    /\ NoEngineRunningIter /\ pollPc = "sleep"
    /\ iter.init = 1 /\ iter.launch = 1
    /\ launched = 1

\* C9: a RUNNING status received while _context is set and isRunning() answers
\* true launches nothing, constructs nothing, and calls neither init nor
\* getParameters; at most one engine is ever constructed.
C9_LiveEngineNotRelaunched ==
    /\ totalCtor <= 1
    /\ iter.active /\ iter.hadCtx
          => iter.getParams = 0 /\ iter.ctor = 0 /\ iter.init = 0
    /\ iter.checked /\ iter.sawRunning
          => iter.launch = 0 /\ iter.status = SERVER_STATUS_RUNNING
    /\ iter.active /\ iter.status = SERVER_STATUS_RUNNING /\ iter.hadCtx
       /\ pollPc = "sleep"
          => iter.checked /\ iter.stop = 0

C9_Witness ==
    /\ pollPc = "sleep" /\ iter.checked /\ iter.sawRunning
    /\ inRun = 1 /\ launched = 0

\* C10: no error inside a loop iteration terminates the process: after a
\* failure of getStatus, getParameters, init, run or submitPoints the process
\* is still running.
C10_NoErrorEndsProcess == proc # "crashed"

InAppend(w) == wpc[w] \in {"push", "release"}
PumpInSection == pumpPc \in {"check", "submit", "after", "release"}

\* C11: at most one of the appends and the pump's section is between its
\* grab and its release, whoever is there holds the mutex, and the cache is
\* read for its size, appended to and cleared only by the holder.
C11_CacheUnderLock ==
    /\ [](/\ \A w \in Workers : InAppend(w) => _pointsMutex = w
          /\ PumpInSection => _pointsMutex = PumpHolder
          /\ Cardinality({w \in Workers : InAppend(w)})
                + (IF PumpInSection THEN 1 ELSE 0) <= 1)
    /\ [][_pointsCache' # _pointsCache
            => \/ \E w \in Workers :
                    /\ _pointsMutex = w /\ wpc[w] = "push" /\ wpc'[w] = "release"
                    /\ pumpPc' = pumpPc
               \/ /\ _pointsMutex = PumpHolder /\ pumpPc = "after"
                  /\ wpc' = wpc]_vars
    /\ [][points' # points \/ cacheAtGrab' # cacheAtGrab
            => _pointsMutex = PumpHolder \/ _pointsMutex' = PumpHolder]_vars

\* a worker waits for the mutex while the pump is submitting
C11_Witness ==
    /\ pumpPc = "submit" /\ _pointsMutex = PumpHolder
    /\ \E w \in Workers : wpc[w] = "grab"

IsPrefix(a, b) == Len(a) <= Len(b) /\ SubSeq(b, 1, Len(a)) = a

\* C12: after a failed submitPoints call the failed batch stays at the head of
\* the cache, the pump's next cycle calls submitPoints again, and the batch it
\* passes is the failed batch followed by exactly the points appended since.
C12_RetryResubmitsPrefix ==
    /\ failed.set => IsPrefix(failed.batch, _pointsCache)
    /\ failed.set /\ pumpPc \in {"submit", "after"}
          => /\ IsPrefix(failed.batch, points)
             /\ points = failed.batch
                           \o SubSeq(appended, failed.at + 1, Len(appended))
    /\ failed.set /\ pumpPc = "release" => cycleSubmits = 1

\* the retry is about to be sent and carries a point appended after the failure
C12_Witness ==
    /\ failed.set /\ pumpPc = "submit"
    /\ Len(failed.batch) >= 1
    /\ Len(points) > Len(failed.batch)

GetParametersReturns == pollPc = "getParams" /\ pollPc' # "getParams"

\* C13: getParameters succeeds at most once: after a success it is never
\* called again and _params, _rx, _ry are never written again; a call that
\* fails writes none of them.
C13_ParametersFetchedOnce ==
    /\ [](/\ paramWrites <= 1
          /\ _params = (IF paramWrites = 0 THEN NoParams ELSE ServerParams)
          /\ paramWrites >= 1 => pollPc # "getParams")
    /\ [][paramWrites >= 1
            => /\ ~GetParametersReturns
               /\ _params' = _params /\ paramWrites' = paramWrites]_vars
    /\ [][GetParametersReturns /\ ~iter'.fetchOk
            => _params' = _params /\ paramWrites' = paramWrites]_vars

\* a later poll saw RUNNING with the parameters already fetched
C13_Witness ==
    /\ paramWrites = 1 /\ _params = ServerParams
    /\ iter.active /\ iter.status = SERVER_STATUS_RUNNING /\ iter.hadCtx
    /\ pollPc = "sleep"

RelaunchIter == iter.checked /\ ~iter.sawRunning

\* C14: a RUNNING status received while _context is set and isRunning()
\* answers false launches run on one new thread, on the engine that exists,
\* in that poll iteration, with no getParameters, no construction and no init.
C14_DeadEngineRelaunchedOnce ==
    /\ [](RelaunchIter
            => /\ iter.status = SERVER_STATUS_RUNNING /\ iter.hadCtx
               /\ pollPc = "sleep"
               /\ iter.launch = 1
               /\ iter.getParams = 0 /\ iter.ctor = 0 /\ iter.init = 0
               /\ iter.stop = 0
               /\ _context = "ctx" /\ ctxState = "inited" /\ totalCtor = 1)
    /\ [][pollPc = "checkRunning" /\ pollPc' # "checkRunning" /\ ~engRunning
            => /\ launched' = launched + 1 /\ inRun' = inRun
               /\ UNCHANGED engineVars
               /\ iter'.checked /\ ~iter'.sawRunning]_vars

\* the engine had run and reported a candidate, its run() returned, and the
\* next RUNNING poll has launched it again
C14_Witness ==
    /\ RelaunchIter /\ pollPc = "sleep"
    /\ found > 0 /\ inRun = 0 /\ launched = 1

\* C15: when RUNNING is received with _context NULL and getParameters fails,
\* _context stays NULL, nothing is constructed, initialised or launched, and
\* the next poll that receives RUNNING calls getParameters again.
C15_FailedFetchStaysNoEngine ==
    /\ [](fetchFailed
            => /\ _context = "NULL" /\ ctxState = "none" /\ totalCtor = 0
               /\ launched = 0 /\ inRun = 0
               /\ _params = NoParams)
    /\ [](NoEngineRunningIter /\ iter.getParams = 1 /\ ~iter.fetchOk
            => /\ fetchFailed /\ pollPc = "sleep"
               /\ iter.ctor = 0 /\ iter.init = 0 /\ iter.launch = 0)
    /\ [][fetchFailed /\ pollPc = "poll" /\ iter'.active
             /\ iter'.status = SERVER_STATUS_RUNNING
            => pollPc' = "getParams"]_vars

\* after a failed fetch a later poll received RUNNING and is fetching again
C15_Witness ==
    /\ fetchFailed /\ pollPc = "getParams"
    /\ NoEngineRunningIter /\ iter.getParams = 0

\* what a poll without effect must leave alone
sessionVars == << engineVars, engRunning, launched, inRun, paramWrites,
                  _pointsCache, _pointsMutex, proc, _running >>

IdleCounts(it) ==
    /\ it.getParams = 0 /\ it.ctor = 0 /\ it.init = 0 /\ it.launch = 0
    /\ it.stop = 0 /\ ~it.checked

\* C16: a poll that ends in a getStatus failure or in a status other than
\* RUNNING and STOPPED changes neither the engine handle nor the parameters
\* nor the cache, makes no fetch, init, launch or stop, and is followed by the
\* next poll.
C16_OtherOutcomeNoEffect ==
    /\ [][pollPc = "poll"
             /\ (pollPc' = "backoff"
                 \/ (iter'.active
                     /\ iter'.status \notin {SERVER_STATUS_RUNNING,
                                             SERVER_STATUS_STOPPED}))
            => /\ pollPc' \in {"backoff", "sleep"}
               /\ IdleCounts(iter')
               /\ sessionVars' = sessionVars]_vars
    /\ [](pollPc = "backoff" => ~iter.active /\ IdleCounts(iter))
    /\ [](iter.active /\ iter.status = SERVER_STATUS_OTHER
            => pollPc = "sleep" /\ IdleCounts(iter))
    /\ [][(pollPc' # pollPc /\ pollPc \in {"backoff", "sleep"})
            => /\ pollPc' = "poll"
               /\ sessionVars' = sessionVars]_vars

\* an unrecognised status arrived while the engine was running
C16_Witness ==
    /\ iter.active /\ iter.status = SERVER_STATUS_OTHER /\ pollPc = "sleep"
    /\ _context = "ctx" /\ inRun = 1 /\ engRunning

\* C17: _running is true in every state, so the pump never leaves its loop:
\* from the loop head it always goes on to grab the mutex, also after the poll
\* loop has ended; the poll loop ends only on a STOPPED status.
C17_PumpNeverStopped ==
    /\ [](_running = TRUE)
    /\ [](pumpPc # "returned")
    /\ [](pollPc = "done" => StoppedIter)
    /\ [][pumpPc = "loop" /\ pumpPc' # "loop" => pumpPc' = "grab"]_vars
    /\ [][pollPc = "done" => _running' = _running]_vars

\* the poll loop has ended on STOPPED, the process has not yet exited, and the
\* pump has just had a batch accepted
C17_Witness ==
    /\ pollPc = "done" /\ Alive
    /\ pumpPc = "after" /\ success /\ cycleSubmits = 1
    /\ Len(submitted) >= 1

\* the accepted batches laid end to end
RECURSIVE Concat(_)
Concat(batches) ==
    IF batches = << >> THEN << >> ELSE Head(batches) \o Concat(Tail(batches))

\* C18: whenever the pump is outside its section, the points appended so far,
\* in the order of their appends, are the accepted batches in order followed
\* by the cache; no point is in two accepted batches.
C18_Accounting ==
    /\ ~PumpInSection => appended = Concat(submitted) \o _pointsCache
    /\ Cardinality(Ids(Concat(submitted))) = Len(Concat(submitted))
    /\ Ids(Concat(submitted)) \subseteq Ids(appended)

\* one batch has been accepted and a later point waits in the cache
C18_Witness ==
    /\ ~PumpInSection
    /\ Len(submitted) >= 1 /\ Len(Concat(submitted)) >= 1
    /\ Len(_pointsCache) >= 1

\* a thread is inside run() or about to call it, or a result callback of the
\* engine is in progress
EngineInUse ==
    \/ inRun > 0
    \/ launched > 0
    \/ \E w \in Workers : wpc[w] # "idle"

\* C19: the engine is never deleted while a thread is still inside its run()
\* or one of its result callbacks is still in progress.
C19_NeverReleasedInUse == ~(ctxState = "deleted" /\ EngineInUse)

\* C20: at most one thread is inside the engine's run() at any time, and no
\* further run is launched while an earlier launched one has not returned.
C20_AtMostOneRun == launched + inRun <= 1

====
